---- MODULE Spec2Model ----
(***************************************************************************)
(* Model of package sqlproxy (driver.go): a database/sql driver that       *)
(* forwards every call to a proxied driver, reached through database/sql,  *)
(* and runs two optional hooks: BeforePrepareHook and BeforeQueryHook.     *)
(*                                                                         *)
(* Each method of driver.go is one action.  The record `last` holds what   *)
(* the most recent call was given, what it returned, and the ordered list  *)
(* of hook invocations and calls on the proxied database/sql objects that  *)
(* the method made.                                                        *)
(***************************************************************************)
EXTENDS Integers, Sequences, FiniteSets, TLC

\* ------------------------------------------------------------------ bounds
\* The number of connection, statement and resultRows objects ever created.
MaxObjects == 4

\* ------------------------------------------------------------------ values
\* An interface{} / driver.Value: an integer, a []interface{} or nil.
IntVal(n) == [int |-> n]
SliceVal(s) == [slice |-> s]
NilVal == [nil |-> TRUE]
IsInt(v) == DOMAIN v = {"int"}
IsSlice(v) == DOMAIN v = {"slice"}
IsPointer(v) == DOMAIN v = {"ptr"}

\* The ids of table t, and the argument lists callers pass.
ArgInts == {1, 5}
ArgLists == {<<>>, <<IntVal(5)>>, <<IntVal(5), IntVal(1)>>, <<IntVal(1), IntVal(5)>>}

\* ----------------------------------------------------------------- queries
QSelect1 == "SELECT 1"
QSelectAny == "SELECT id FROM t WHERE id = ANY(?)"
QDeleteAny == "DELETE FROM t WHERE id = ANY(?)"
QBogus == "SELEKT"
Queries == {QSelect1, QSelectAny, QDeleteAny, QBogus}

\* ------------------------------------------------------------------ errors
NoErr == "nil"
EOF == "io.EOF"
ErrHook == "hook: query rejected"
ErrUnknownDriver == "sql: unknown driver"
ErrDBClosed == "sql: database is closed"
ErrStmtClosed == "sql: statement is closed"
ErrRowsClosed == "sql: Rows are closed"
ErrSyntax == "driver: syntax error"
ErrArgCount == "sql: expected n arguments, got m"
ErrConvert == "sql: converting argument: unsupported type []interface {}"
ErrType == "driver: wrong parameter type"
ErrBadConn == "driver: bad connection"
ErrNotPointer == "sql: Scan error: destination not a pointer"
ErrScanCount == "sql: expected n destination arguments in Scan"

\* -------------------------------------------------------------- the Driver
\* Driver.ProxiedDriverName: "postgresql" converts arguments with
\* database/sql's default converter, "pgx" accepts every argument type
\* itself, "nodriver" is not registered.
DriverNames == {"postgresql", "pgx", "nodriver"}
Registered == {"postgresql", "pgx"}

\* Driver.BeforePrepareHook: nil, or one of three user functions.
PrepareHooks == {"nil", "toSelect1", "rejectWrites", "rotate"}
IsWrite(q) == q = QDeleteAny
Rotate(q) ==
    CASE q = QSelect1 -> QSelectAny
      [] q = QSelectAny -> QDeleteAny
      [] q = QDeleteAny -> QBogus
      [] OTHER -> QSelect1

\* The user's hook function: (string, error).
BeforePrepareHook(h, query) ==
    CASE h = "toSelect1" -> [query |-> QSelect1, err |-> NoErr]
      [] h = "rejectWrites" ->
            IF IsWrite(query) THEN [query |-> "", err |-> ErrHook]
            ELSE [query |-> query, err |-> NoErr]
      [] h = "rotate" -> [query |-> Rotate(query), err |-> NoErr]
      [] OTHER -> [query |-> query, err |-> NoErr]

VARIABLES
    driver,     \* the Driver struct
    conns,      \* connection objects: [db |-> handle of the sql.DB]
    dbs,        \* sql.DB objects of the proxied driver: [closed]
    stmts,      \* statement objects: [stmt |-> sql.Stmt handle or 0, query]
    dbStmts,    \* sql.Stmt objects: [db, query, closed]
    cursors,    \* resultRows objects: [rows |-> sql.Rows handle or 0]
    dbRows,     \* sql.Rows objects: [cols, data, pos, closed, err]
    table,      \* committed content of table t: a set of ids
    tx,         \* the sql.Tx returned by Begin: [open, db, begin]
    last        \* the most recent call

vars == <<driver, conns, dbs, stmts, dbStmts, cursors, dbRows, table, tx, last>>

Objects == Len(conns) + Len(stmts) + Len(cursors)


\* ------------------------------------------------- the record of one call
Nil == 0        \* a nil pointer / nil interface returned or stored

\* A returned value: a pointer to an object of this package (Ref(Nil) when
\* nil), or the sql.Result of an Exec.
Ref(i) == [ref |-> i]
Result(n) == [affected |-> n]

Event(ev, q, args, err) == [ev |-> ev, q |-> q, args |-> args, err |-> err]

Call(op, target, q, args, val, err, events) ==
    [op |-> op, target |-> target, q |-> q, args |-> args, val |-> val,
     err |-> err, panic |-> FALSE, dest |-> <<>>, events |-> events]

NoCall == Call("none", Nil, "", <<>>, Ref(Nil), NoErr, <<>>)

\* ------------------------------------- database/sql on the proxied driver
\* sql.Open: fails when no driver of that name is registered.
SqlOpen(name) == IF name \in Registered THEN NoErr ELSE ErrUnknownDriver

\* The number of placeholders the proxied driver reports for a statement.
NumInput(q) == IF q = QSelect1 THEN 0 ELSE 1

\* sql.DB.Prepare.
DBPrepare(db, q) ==
    IF dbs[db].closed THEN ErrDBClosed
    ELSE IF q = QBogus THEN ErrSyntax
    ELSE NoErr

\* The argument check database/sql makes before a statement runs: the
\* conversion of each argument (the default converter refuses a
\* []interface{}; "pgx" checks its values itself), then the count against
\* NumInput.
DriverArgs(name, q, vargs) ==
    IF name # "pgx" /\ \E i \in 1..Len(vargs) : ~IsInt(vargs[i])
    THEN ErrConvert
    ELSE IF Len(vargs) # NumInput(q) THEN ErrArgCount
    ELSE NoErr

RECURSIVE SortedSeq(_)
SortedSeq(S) ==
    IF S = {} THEN <<>>
    ELSE LET m == CHOOSE x \in S : \A y \in S : x <= y
         IN <<m>> \o SortedSeq(S \ {m})

SliceInts(v) == {v.slice[i].int : i \in 1..Len(v.slice)}
IsIntSlice(v) == IsSlice(v) /\ \A i \in 1..Len(v.slice) : IsInt(v.slice[i])

Outcome(err, affected, t, cols, data) ==
    [err |-> err, affected |-> affected, table |-> t, cols |-> cols, data |-> data]

\* What the database does with a statement and its bound arguments.
Run(q, vargs, t) ==
    CASE q = QSelect1 ->
            Outcome(NoErr, 0, t, <<"?column?">>, << <<IntVal(1)>> >>)
      [] q = QSelectAny ->
            IF ~IsIntSlice(vargs[1]) THEN Outcome(ErrType, 0, t, <<>>, <<>>)
            ELSE LET ids == SortedSeq(t \cap SliceInts(vargs[1]))
                 IN Outcome(NoErr, 0, t, <<"id">>,
                            [i \in 1..Len(ids) |-> <<IntVal(ids[i])>>])
      [] q = QDeleteAny ->
            IF ~IsIntSlice(vargs[1]) THEN Outcome(ErrType, 0, t, <<>>, <<>>)
            ELSE Outcome(NoErr, Cardinality(t \cap SliceInts(vargs[1])),
                         t \ SliceInts(vargs[1]), <<>>, <<>>)
      [] OTHER -> Outcome(ErrSyntax, 0, t, <<>>, <<>>)

\* sql.Stmt.Exec / sql.Stmt.Query of a statement prepared on a sql.DB, called
\* with the variadic argument list vargs.  The statement runs on a pooled
\* connection of the DB, in autocommit mode.
StmtRun(name, h, vargs, t) ==
    LET s == dbStmts[h]
    IN IF s.closed THEN Outcome(ErrStmtClosed, 0, t, <<>>, <<>>)
       ELSE IF dbs[s.db].closed THEN Outcome(ErrDBClosed, 0, t, <<>>, <<>>)
       ELSE IF DriverArgs(name, s.query, vargs) # NoErr
            THEN Outcome(DriverArgs(name, s.query, vargs), 0, t, <<>>, <<>>)
       ELSE Run(s.query, vargs, t)

\* ------------------------------------------------------------------- Init
Init ==
    /\ driver \in [ProxiedDriverName : DriverNames,
                   BeforePrepareHook : PrepareHooks,
                   BeforeQueryHook : BOOLEAN]
    /\ conns = <<>>
    /\ dbs = <<>>
    /\ stmts = <<>>
    /\ dbStmts = <<>>
    /\ cursors = <<>>
    /\ dbRows = <<>>
    /\ table = ArgInts
    /\ tx = [open |-> FALSE, db |-> Nil, begin |-> {}]
    /\ last = NoCall

\* ----------------------------------------------------------------- driver
\* Driver.Open
Open ==
    /\ Objects < MaxObjects
    /\ LET err == SqlOpen(driver.ProxiedDriverName)
           ev == <<Event("sql.Open", "", <<>>, err)>>
       IN IF err # NoErr
          THEN /\ last' = Call("Open", Nil, "", <<>>, Ref(Nil), err, ev)
               /\ UNCHANGED <<conns, dbs>>
          ELSE /\ dbs' = Append(dbs, [closed |-> FALSE])
               /\ conns' = Append(conns, [db |-> Len(dbs) + 1])
               /\ last' = Call("Open", Nil, "", <<>>, Ref(Len(conns) + 1), NoErr, ev)
    /\ UNCHANGED <<driver, stmts, dbStmts, cursors, dbRows, table, tx>>

\* ------------------------------------------------------------- connection
\* The hook step of connection.Prepare: the text to prepare, or the error.
HookedQueryUnrewritten(d, query) ==
    IF d.BeforePrepareHook # "nil"
    THEN [query |-> query, err |-> BeforePrepareHook(d.BeforePrepareHook, query).err]
    ELSE [query |-> query, err |-> NoErr]

HookedQueryErrorDropped(d, query) ==
    IF d.BeforePrepareHook # "nil"
    THEN [query |-> BeforePrepareHook(d.BeforePrepareHook, query).query, err |-> NoErr]
    ELSE [query |-> query, err |-> NoErr]

HookedQuery(d, query) ==
    IF d.BeforePrepareHook # "nil"
    THEN BeforePrepareHook(d.BeforePrepareHook, query)
    ELSE [query |-> query, err |-> NoErr]

PrepareHookEvents(d, query) ==
    IF d.BeforePrepareHook # "nil"
    THEN <<Event("BeforePrepareHook", query, <<>>,
                 BeforePrepareHook(d.BeforePrepareHook, query).err)>>
    ELSE <<>>

\* &statement{c.driver, stmt, query}
statement(stmt, query) == [stmt |-> stmt, query |-> query]

\* connection.Prepare
Prepare ==
    \E c \in 1..Len(conns), query \in Queries :
        /\ Objects < MaxObjects
        /\ LET hooked == HookedQuery(driver, query)
               hev == PrepareHookEvents(driver, query)
           IN IF hooked.err # NoErr
              THEN /\ last' = Call("Prepare", c, query, <<>>, Ref(Nil), hooked.err, hev)
                   /\ UNCHANGED <<stmts, dbStmts>>
              ELSE LET err == DBPrepare(conns[c].db, hooked.query)
                       stmt == IF err = NoErr THEN Len(dbStmts) + 1 ELSE Nil
                   IN /\ dbStmts' =
                            IF err = NoErr
                            THEN Append(dbStmts, [db |-> conns[c].db,
                                                  query |-> hooked.query,
                                                  closed |-> FALSE])
                            ELSE dbStmts
                      /\ stmts' = Append(stmts, statement(stmt, hooked.query))
                      /\ last' = Call("Prepare", c, query, <<>>, Ref(Len(stmts) + 1), err,
                                      hev \o <<Event("db.Prepare", hooked.query, <<>>, err)>>)
        /\ UNCHANGED <<driver, conns, dbs, cursors, dbRows, table, tx>>

\* connection.Close
ConnClose ==
    \E c \in 1..Len(conns) :
        /\ dbs' = [dbs EXCEPT ![conns[c].db].closed = TRUE]
        /\ last' = Call("ConnClose", c, "", <<>>, Ref(Nil), NoErr,
                        <<Event("db.Close", "", <<>>, NoErr)>>)
        /\ UNCHANGED <<driver, conns, stmts, dbStmts, cursors, dbRows, table, tx>>

\* connection.Begin: the sql.Tx of c.db is handed to the caller as it is.
\* One transaction is followed at a time.
Begin ==
    \E c \in 1..Len(conns) :
        /\ ~tx.open
        /\ LET err == IF dbs[conns[c].db].closed THEN ErrDBClosed ELSE NoErr
               ev == <<Event("db.Begin", "", <<>>, err)>>
           IN IF err # NoErr
              THEN /\ last' = Call("Begin", c, "", <<>>, Ref(Nil), err, ev)
                   /\ UNCHANGED tx
              ELSE /\ tx' = [open |-> TRUE, db |-> conns[c].db, begin |-> table]
                   /\ last' = Call("Begin", c, "", <<>>, Ref(1), NoErr, ev)
        /\ UNCHANGED <<driver, conns, dbs, stmts, dbStmts, cursors, dbRows, table>>

\* sql.Tx.Commit / sql.Tx.Rollback, called by the holder of the driver.Tx
\* that Begin returned.  Nothing was ever run on the transaction itself, so
\* there is nothing to apply or to undo.
TxEnd ==
    \E op \in {"Commit", "Rollback"} :
        /\ tx.open
        /\ tx' = [tx EXCEPT !.open = FALSE]
        /\ last' = Call(op, Nil, "", <<>>, Ref(Nil), NoErr,
                        <<Event("tx." \o op, "", <<>>, NoErr)>>)
        /\ UNCHANGED <<driver, conns, dbs, stmts, dbStmts, cursors, dbRows, table>>


\* -------------------------------------------------------------- statement
\* castValues: a new slice holding the same values, in the same order.
castValues(values) == [idx \in 1..Len(values) |-> values[idx]]

\* Driver.execBeforeQueryHook
execBeforeQueryHookSkipped(d, query, args) == <<>>

execBeforeQueryHook(d, query, args) ==
    IF d.BeforeQueryHook
    THEN <<Event("BeforeQueryHook", query, args, NoErr)>>
    ELSE <<>>

\* The query text a statement hands to the hook: s.query.
HookTextOfFirst(s) == stmts[1].query

HookText(s) == stmts[s].query

\* The argument list of the call s.stmt.Exec(args) / s.stmt.Query(args):
\* args is not spread with "...", so it is the only variadic argument.
CallArgs(args) == <<SliceVal(args)>>

Panicked(call) == [call EXCEPT !.panic = TRUE]

\* statement.Close
StmtClose ==
    \E s \in 1..Len(stmts) :
        /\ IF stmts[s].stmt = Nil
           THEN /\ last' = Panicked(Call("StmtClose", s, "", <<>>, Ref(Nil), NoErr, <<>>))
                /\ UNCHANGED dbStmts
           ELSE /\ dbStmts' = [dbStmts EXCEPT ![stmts[s].stmt].closed = TRUE]
                /\ last' = Call("StmtClose", s, "", <<>>, Ref(Nil), NoErr,
                                <<Event("stmt.Close", "", <<>>, NoErr)>>)
        /\ UNCHANGED <<driver, conns, dbs, stmts, cursors, dbRows, table, tx>>

\* statement.Exec
Exec ==
    \E s \in 1..Len(stmts), values \in ArgLists :
        /\ LET args == castValues(values)
               hev == execBeforeQueryHook(driver, HookText(s), args)
               h == stmts[s].stmt
           IN IF h = Nil
              THEN /\ last' = Panicked(Call("Exec", s, "", values, Ref(Nil), NoErr, hev))
                   /\ UNCHANGED table
              ELSE LET out == StmtRun(driver.ProxiedDriverName, h, CallArgs(args), table)
                   IN /\ table' = out.table
                      /\ last' = Call("Exec", s, "", values,
                                      IF out.err = NoErr THEN Result(out.affected)
                                      ELSE Ref(Nil),
                                      out.err,
                                      hev \o <<Event("stmt.Exec", dbStmts[h].query,
                                                     CallArgs(args), out.err)>>)
        /\ UNCHANGED <<driver, conns, dbs, stmts, dbStmts, cursors, dbRows, tx>>

\* statement.Query: &resultRows{rows} is returned whatever err is.
Query ==
    \E s \in 1..Len(stmts), values \in ArgLists :
        /\ Objects < MaxObjects
        /\ LET args == castValues(values)
               hev == execBeforeQueryHook(driver, HookText(s), args)
               h == stmts[s].stmt
           IN IF h = Nil
              THEN /\ last' = Panicked(Call("Query", s, "", values, Ref(Nil), NoErr, hev))
                   /\ UNCHANGED <<cursors, dbRows, table>>
              ELSE LET out == StmtRun(driver.ProxiedDriverName, h, CallArgs(args), table)
                       rows == IF out.err = NoErr THEN Len(dbRows) + 1 ELSE Nil
                   IN /\ table' = out.table
                      /\ dbRows' =
                            IF out.err = NoErr
                            THEN Append(dbRows, [cols |-> out.cols, data |-> out.data,
                                                 pos |-> 0, closed |-> FALSE,
                                                 err |-> NoErr])
                            ELSE dbRows
                      /\ cursors' = Append(cursors, [rows |-> rows])
                      /\ last' = Call("Query", s, "", values, Ref(Len(cursors) + 1),
                                      out.err,
                                      hev \o <<Event("stmt.Query", dbStmts[h].query,
                                                     CallArgs(args), out.err)>>)
        /\ UNCHANGED <<driver, conns, dbs, stmts, dbStmts, tx>>


\* ------------------------------------------------------------------- rows
RowEvent(ev, ok, row, err) == [ev |-> ev, ok |-> ok, row |-> row, err |-> err]

\* sql.Rows.Next: advances to the next row; returns false at the end of the
\* result set or when fetching fails (fail), and then Err() tells which.
RowsNext(rs, fail) ==
    IF rs.closed THEN [ok |-> FALSE, rows |-> rs]
    ELSE IF fail
         THEN [ok |-> FALSE, rows |-> [rs EXCEPT !.closed = TRUE, !.err = ErrBadConn]]
    ELSE IF rs.pos < Len(rs.data)
         THEN [ok |-> TRUE, rows |-> [rs EXCEPT !.pos = rs.pos + 1]]
    ELSE [ok |-> FALSE, rows |-> [rs EXCEPT !.closed = TRUE]]

\* sql.Rows.Scan(dests...): stores column i through the pointer dests[i];
\* buf is the memory the pointers may point into ([ptr |-> i] is &buf[i]).
\* It stops at the first destination that is no pointer.
RowsScan(rs, dests, buf) ==
    IF Len(dests) # Len(rs.cols) THEN [err |-> ErrScanCount, buf |-> buf]
    ELSE LET row == rs.data[rs.pos]
             bad == {i \in 1..Len(dests) : ~IsPointer(dests[i])}
             stop == IF bad = {} THEN Len(dests) + 1
                     ELSE CHOOSE i \in bad : \A j \in bad : i <= j
             written == {i \in 1..Len(dests) : i < stop}
         IN [err |-> IF bad = {} THEN NoErr ELSE ErrNotPointer,
             buf |-> [k \in 1..Len(buf) |->
                        IF \E i \in written : dests[i].ptr = k
                        THEN row[CHOOSE i \in written : dests[i].ptr = k]
                        ELSE buf[k]]]

\* The buffer database/sql hands to driver.Rows.Next: one nil Value a column.
DestBuffer(rs) == [i \in 1..Len(rs.cols) |-> NilVal]

\* resultRows.Columns
Columns ==
    \E r \in 1..Len(cursors) :
        /\ LET h == cursors[r].rows
           IN IF h = Nil
              THEN last' = Panicked(Call("Columns", r, "", <<>>, Ref(Nil), NoErr, <<>>))
              ELSE IF dbRows[h].closed
              THEN last' = Panicked(Call("Columns", r, "", <<>>, Ref(Nil), NoErr,
                                <<Event("rows.Columns", "", <<>>, ErrRowsClosed)>>))
              ELSE last' = Call("Columns", r, "", <<>>, [cols |-> dbRows[h].cols], NoErr,
                                <<Event("rows.Columns", "", <<>>, NoErr)>>)
        /\ UNCHANGED <<driver, conns, dbs, stmts, dbStmts, cursors, dbRows, table, tx>>

\* resultRows.Close
RowsClose ==
    \E r \in 1..Len(cursors) :
        /\ LET h == cursors[r].rows
           IN IF h = Nil
              THEN /\ last' = Panicked(Call("RowsClose", r, "", <<>>, Ref(Nil), NoErr, <<>>))
                   /\ UNCHANGED dbRows
              ELSE /\ dbRows' = [dbRows EXCEPT ![h].closed = TRUE]
                   /\ last' = Call("RowsClose", r, "", <<>>, Ref(Nil), NoErr,
                                   <<Event("rows.Close", "", <<>>, NoErr)>>)
        /\ UNCHANGED <<driver, conns, dbs, stmts, dbStmts, cursors, table, tx>>

\* resultRows.Next
Next ==
    \E r \in 1..Len(cursors), fail \in BOOLEAN :
        /\ LET h == cursors[r].rows
           IN IF h = Nil
              THEN /\ last' = Panicked(Call("Next", r, "", <<>>, Ref(Nil), NoErr, <<>>))
                   /\ UNCHANGED dbRows
              ELSE LET dest == DestBuffer(dbRows[h])
                       n == RowsNext(dbRows[h], fail)
                   IN /\ dbRows' = [dbRows EXCEPT ![h] = n.rows]
                      /\ IF n.ok
                         THEN LET sc == RowsScan(n.rows, castValues(dest), dest)
                                  row == n.rows.data[n.rows.pos]
                              IN last' =
                                   [Call("Next", r, "", <<>>, Ref(Nil), sc.err,
                                         <<RowEvent("rows.Next", TRUE, row, NoErr),
                                           RowEvent("rows.Scan", TRUE, row, sc.err)>>)
                                    EXCEPT !.dest = sc.buf]
                         ELSE last' =
                                   [Call("Next", r, "", <<>>, Ref(Nil), EOF,
                                         <<RowEvent("rows.Next", FALSE, <<>>, n.rows.err)>>)
                                    EXCEPT !.dest = dest]
        /\ UNCHANGED <<driver, conns, dbs, stmts, dbStmts, cursors, table, tx>>

\* --------------------------------------------------------- specifications
\* Preparing, executing and querying statements, under every configuration.
Step ==
    \/ Open
    \/ Prepare
    \/ Exec
    \/ Query

Spec == Init /\ [][Step]_vars

\* Result cursors and the closing of objects, over a proxied driver that
\* accepts what the proxy passes.
InitRows == Init /\ driver.ProxiedDriverName = "pgx"

RowsStep ==
    \/ Open
    \/ Prepare
    \/ Query
    \/ StmtClose
    \/ Columns
    \/ RowsClose
    \/ Next

SpecRows == InitRows /\ [][RowsStep]_vars

\* Transactions, without a pre-prepare hook.
TxStep ==
    \/ Open
    \/ Prepare
    \/ Exec
    \/ ConnClose
    \/ Begin
    \/ TxEnd

InitTx == InitRows /\ driver.BeforePrepareHook = "nil"

SpecTx == InitTx /\ [][TxStep]_vars


\* ----------------------------------------------------------------- claims
\* The events of one kind that a call made, in order.
EventsOf(call, kind) == SelectSeq(call.events, LAMBDA e : e.ev = kind)

\* The position of the first event of a kind in a call (0 when none).
FirstIndex(call, kind) ==
    IF \E i \in 1..Len(call.events) : call.events[i].ev = kind
    THEN CHOOSE i \in 1..Len(call.events) :
            /\ call.events[i].ev = kind
            /\ \A j \in 1..(i - 1) : call.events[j].ev # kind
    ELSE 0

\* The calls on the proxied sql.Stmt that statement.Exec / Query made.
Forwarded(call) ==
    SelectSeq(call.events, LAMBDA e : e.ev \in {"stmt.Exec", "stmt.Query"})

\* C1: connection.Prepare(q) calls the proxied driver's prepare exactly once,
\* with the text the pre-prepare hook returned when a hook is configured and
\* returns no error, and with q itself when no hook is configured.
C1_PrepareForwardsRewrittenText ==
    last.op = "Prepare" =>
        LET sent == EventsOf(last, "db.Prepare")
            hook == BeforePrepareHook(driver.BeforePrepareHook, last.q)
        IN IF driver.BeforePrepareHook = "nil"
           THEN Len(sent) = 1 /\ sent[1].q = last.q
           ELSE hook.err = NoErr => Len(sent) = 1 /\ sent[1].q = hook.query

\* C1 witness: a Prepare whose hook rewrote the text to a different one, which
\* the proxied driver was then given.
C1_Witness ==
    /\ last.op = "Prepare"
    /\ driver.BeforePrepareHook = "rotate"
    /\ last.q = QSelect1
    /\ Len(EventsOf(last, "db.Prepare")) = 1
    /\ EventsOf(last, "db.Prepare")[1].q = QSelectAny

\* C2: when the pre-prepare hook returns an error, connection.Prepare returns
\* that error and no statement, and makes no call of the proxied driver's
\* prepare.
C2_HookErrorAbortsPrepare ==
    (/\ last.op = "Prepare"
     /\ driver.BeforePrepareHook # "nil"
     /\ BeforePrepareHook(driver.BeforePrepareHook, last.q).err # NoErr)
    => /\ last.err = BeforePrepareHook(driver.BeforePrepareHook, last.q).err
       /\ last.val = Ref(Nil)
       /\ Len(EventsOf(last, "db.Prepare")) = 0
       /\ Len(EventsOf(last, "BeforePrepareHook")) = 1

\* C2 witness: a Prepare of a statement the hook rejects, made when a
\* statement had been prepared before.
C2_Witness ==
    /\ last.op = "Prepare"
    /\ driver.BeforePrepareHook = "rejectWrites"
    /\ last.q = QDeleteAny
    /\ last.err = ErrHook
    /\ Len(dbStmts) = 1

\* C3: with a pre-execute hook configured, every statement.Exec and
\* statement.Query invokes the hook exactly once, with the statement's query
\* text and the caller's argument values, before its call of the proxied
\* statement (of which there is at most one, and none without the hook).
C3_HookOncePerExecution ==
    (last.op \in {"Exec", "Query"} /\ driver.BeforeQueryHook) =>
        LET hooks == EventsOf(last, "BeforeQueryHook")
            h == stmts[last.target].stmt
        IN /\ Len(hooks) = 1
           /\ hooks[1].q = stmts[last.target].query
           /\ h # Nil => hooks[1].q = dbStmts[h].query
           /\ hooks[1].args = last.args
           /\ FirstIndex(last, "BeforeQueryHook") = 1
           /\ Len(Forwarded(last)) <= 1
           /\ Len(last.events) = 1 + Len(Forwarded(last))

\* C3 witness: an Exec with two arguments whose hook invocation was followed
\* by the call of the proxied statement.
C3_Witness ==
    /\ last.op = "Exec"
    /\ driver.BeforeQueryHook
    /\ last.args = <<IntVal(5), IntVal(1)>>
    /\ Len(last.events) = 2
    /\ last.events[1].ev = "BeforeQueryHook"
    /\ last.events[2].ev = "stmt.Exec"

\* C4: statement.Exec and statement.Query call the proxied statement with
\* exactly the caller's arguments a1..an, in order, and the prepared text.
C4_ArgumentsForwardedUnchanged ==
    (last.op \in {"Exec", "Query"} /\ Len(Forwarded(last)) > 0) =>
        /\ Forwarded(last)[1].args = last.args
        /\ Forwarded(last)[1].q = stmts[last.target].query

\* C5: with no hooks configured, an Exec or Query through the proxy has the
\* result (error, sql.Result, returned rows, effect on the table) of the same
\* call made on the proxied statement with the same argument list.
C5_RoundTrip ==
    [][(/\ last'.op \in {"Exec", "Query"}
        /\ driver.BeforePrepareHook = "nil"
        /\ ~driver.BeforeQueryHook
        /\ stmts[last'.target].stmt # Nil)
       => LET direct == StmtRun(driver.ProxiedDriverName, stmts[last'.target].stmt,
                                last'.args, table)
          IN /\ last'.err = direct.err
             /\ table' = direct.table
             /\ (last'.op = "Exec" /\ direct.err = NoErr)
                    => last'.val = Result(direct.affected)
             /\ (last'.op = "Query" /\ direct.err = NoErr)
                    => /\ cursors'[last'.val.ref].rows # Nil
                       /\ dbRows'[cursors'[last'.val.ref].rows].data = direct.data]_vars

\* C6: on a cursor over k rows, each of the first k calls of Next succeeds and
\* leaves the row's column values in the caller's buffer, and the call after
\* the last row returns io.EOF.
C6_NextFillsDestination ==
    (last.op = "Next" /\ ~last.panic /\ last.events[1].err = NoErr) =>
        IF last.events[1].ok
        THEN last.err = NoErr /\ last.dest = last.events[1].row
        ELSE last.err = EOF

\* C7: whenever a hook or a call on the proxied driver fails with an error,
\* the method returns exactly that error, and does not panic.
C7_ErrorsPropagated ==
    \A i \in 1..Len(last.events) :
        last.events[i].err # NoErr => last.err = last.events[i].err /\ ~last.panic

\* C8: while the transaction that connection.Begin returned is open, a
\* statement of that connection runs inside it: its effects are not
\* committed before Commit, and with no other connection at work a Rollback
\* leaves the table as it was at Begin.
C8_StatementsRunInTransaction ==
    [][/\ (/\ tx.open
           /\ last'.op = "Exec"
           /\ stmts[last'.target].stmt # Nil
           /\ dbStmts[stmts[last'.target].stmt].db = tx.db)
          => table' = table
       /\ (tx.open /\ last'.op = "Rollback" /\ Len(conns) = 1)
          => table' = tx.begin]_vars

\* C9: a statement keeps the text given to the proxied driver at its prepare:
\* a new statement's text is what the pre-prepare hook returned for the
\* caller's text, no later call changes it, every Exec and Query passes
\* exactly that statement's text to the pre-execute hook, and the pre-prepare
\* hook runs once in a Prepare and never in an Exec or Query.
C9_StatementRetainsText ==
    [][/\ \A s \in 1..Len(stmts) : stmts'[s] = stmts[s]
       /\ last'.op = "Prepare" =>
            /\ Len(EventsOf(last', "BeforePrepareHook"))
                  = IF driver.BeforePrepareHook = "nil" THEN 0 ELSE 1
            /\ Len(stmts') > Len(stmts) =>
                  /\ stmts'[Len(stmts')].query =
                        IF driver.BeforePrepareHook = "nil" THEN last'.q
                        ELSE BeforePrepareHook(driver.BeforePrepareHook, last'.q).query
                  /\ stmts'[Len(stmts')].query = EventsOf(last', "db.Prepare")[1].q
       /\ last'.op \in {"Exec", "Query"} =>
            /\ Len(EventsOf(last', "BeforePrepareHook")) = 0
            /\ driver.BeforeQueryHook =>
                  EventsOf(last', "BeforeQueryHook")[1].q = stmts[last'.target].query]_vars

\* C9 witness: two statements with different rewritten texts, the second of
\* which was executed after the first had been.
C9_Witness ==
    /\ driver.BeforePrepareHook = "rotate"
    /\ driver.BeforeQueryHook
    /\ Len(stmts) = 2
    /\ stmts[1].query # stmts[2].query
    /\ last.op = "Exec"
    /\ last.target = 2
    /\ EventsOf(last, "BeforeQueryHook")[1].q = stmts[2].query

\* C10: Open, Prepare and Query return a handle or an error, never both, and
\* no statement or cursor wrapping a nil handle exists.
C10_HandleOrError ==
    /\ (last.op \in {"Open", "Prepare", "Query"} /\ last.err # NoErr)
          => last.val = Ref(Nil)
    /\ \A s \in 1..Len(stmts) : stmts[s].stmt # Nil
    /\ \A r \in 1..Len(cursors) : cursors[r].rows # Nil

====
